---------------------------- MODULE Spec2Model ----------------------------
(***************************************************************************)
(* carbonzipper: the HTTP front end (cmd/carbonzipper/main.go) and the     *)
(* fan-out / cache / merge engine it drives (package zipper, package       *)
(* pathcache).  The front end is modelled from main.go; the engine, whose  *)
(* source is not part of the tree at hand, is modelled from its design     *)
(* document (spec.md) and every such definition says so.                   *)
(***************************************************************************)
EXTENDS Integers, Sequences, FiniteSets, TLC

(***************************************************************************)
(* Bounds of the model.                                                    *)
(***************************************************************************)
\* requests accepted by the front end in one run (caps the counters)
MaxRequests == 2

\* the backend servers of config.Backends in a serving process
BackendSet == {1, 2}
\* concurrently running handler goroutines
Slots == {1, 2}
\* query / target form values: the empty one and a glob
Queries == {"", "a.b.*"}
\* format form values: the recognised ones and one that is not recognised
Formats == {"", "json", "protobuf", "pickle", "xml"}
\* what one backend's attempt ends in (BackendReply of the design document)
Outcomes == {"ok", "error", "timeout"}

(***************************************************************************)
(* Small helpers.                                                          *)
(***************************************************************************)
Min(a, b) == IF a <= b THEN a ELSE b

Inc(M, f, n) == [M EXCEPT ![f] = @ + n]

Count(S) == Cardinality(S)

RECURSIVE SetSum(_, _)
SetSum(S, g) ==
    IF S = {} THEN 0
    ELSE LET x == CHOOSE y \in S : TRUE IN g[x] + SetSum(S \ {x}, g)

(***************************************************************************)
(* Process-wide counters (var Metrics) and the per-call zipper.Stats.      *)
(***************************************************************************)
StatsFields == {"Timeouts", "FindErrors", "RenderErrors", "InfoErrors",
                "SearchRequests", "SearchCacheHits", "SearchCacheMisses",
                "CacheMisses", "CacheHits"}

ZeroStats == [f \in StatsFields |-> 0]

MetricsFields == StatsFields \cup {"Requests", "Responses", "Errors",
                 "FindRequests", "RenderRequests", "InfoRequests"}

ZeroMetrics == [f \in MetricsFields |-> 0]

StatsAdd(a, b) == [f \in StatsFields |-> a[f] + b[f]]

\* func sendStats: every field of the call's Stats is added to its counter
sendStats(M, stats) ==
    [f \in MetricsFields |->
        IF f \in StatsFields THEN M[f] + stats[f] ELSE M[f]]


(***************************************************************************)
(* Configuration: var config (main.go) with its defaults, and the          *)
(* zipper.Config main() builds from it.                                    *)
(***************************************************************************)
defaultConfig ==
    [Backends |-> << >>,
     Buckets |-> 10,
     Timeouts |-> [Global |-> 10000, AfterStarted |-> 2000, Connect |-> 200],
     CarbonSearch |-> [Prefix |-> "", Backend |-> ""],
     KeepAliveInterval |-> 30000,
     MaxIdleConnsPerHost |-> 100,
     ConcurrencyLimitPerServer |-> 0,
     ExpireDelaySec |-> 600]

\* a configuration file's contents: the options the model lets a file set
ConfigFiles ==
    [Backends : {<< >>, [i \in BackendSet |-> i]},
     Prefix : {"", "virtual.search."},
     Backend : {"", "search1"}]

\* yaml.Unmarshal(cfg, &config): the file's options overwrite the defaults
yamlUnmarshal(c, file) ==
    [c EXCEPT !.Backends = file.Backends,
              !.CarbonSearch = [Prefix |-> file.Prefix, Backend |-> file.Backend]]

\* the configuration of a process that is serving, search routing not set
ServingConfig ==
    yamlUnmarshal(defaultConfig,
        [Backends |-> [i \in BackendSet |-> i], Prefix |-> "", Backend |-> ""])

\* pathcache.NewPathCache(ExpireDelaySec): every call makes a cache of its own;
\* `id` stands for the instance
NewPathCache(id, expireDelaySec) == [id |-> id, expireDelaySec |-> expireDelaySec]

\* zipperConfig := &zipper.Config{...}, main.go 665-676
zipperConfigTimeoutsSwapped(c) ==
    [PathCache |-> NewPathCache(1, c.ExpireDelaySec),
     SearchCache |-> NewPathCache(2, c.ExpireDelaySec),
     ConcurrencyLimitPerServer |-> c.ConcurrencyLimitPerServer,
     MaxIdleConnsPerHost |-> c.MaxIdleConnsPerHost,
     Backends |-> c.Backends,
     CarbonSearch |-> c.CarbonSearch,
     Timeouts |-> [Global |-> c.Timeouts.AfterStarted,
                   AfterStarted |-> c.Timeouts.Global,
                   Connect |-> c.Timeouts.Connect],
     KeepAliveInterval |-> c.KeepAliveInterval]

zipperConfigLimitFromIdleConns(c) ==
    [PathCache |-> NewPathCache(1, c.ExpireDelaySec),
     SearchCache |-> NewPathCache(2, c.ExpireDelaySec),
     ConcurrencyLimitPerServer |-> c.MaxIdleConnsPerHost,
     MaxIdleConnsPerHost |-> c.MaxIdleConnsPerHost,
     Backends |-> c.Backends,
     CarbonSearch |-> c.CarbonSearch,
     Timeouts |-> c.Timeouts,
     KeepAliveInterval |-> c.KeepAliveInterval]

zipperConfigOneCache(c) ==
    [PathCache |-> NewPathCache(1, c.ExpireDelaySec),
     SearchCache |-> NewPathCache(1, c.ExpireDelaySec),
     ConcurrencyLimitPerServer |-> c.ConcurrencyLimitPerServer,
     MaxIdleConnsPerHost |-> c.MaxIdleConnsPerHost,
     Backends |-> c.Backends,
     CarbonSearch |-> c.CarbonSearch,
     Timeouts |-> c.Timeouts,
     KeepAliveInterval |-> c.KeepAliveInterval]

zipperConfig(c) ==
    [PathCache |-> NewPathCache(1, c.ExpireDelaySec),
     SearchCache |-> NewPathCache(2, c.ExpireDelaySec),
     ConcurrencyLimitPerServer |-> c.ConcurrencyLimitPerServer,
     MaxIdleConnsPerHost |-> c.MaxIdleConnsPerHost,
     Backends |-> c.Backends,
     CarbonSearch |-> c.CarbonSearch,
     Timeouts |-> c.Timeouts,
     KeepAliveInterval |-> c.KeepAliveInterval]

VARIABLES
    mainpc,              \* where main() is: a step of start-up, "serving" or "fatal"
    env,                 \* what main() finds: flags, files, their contents
    config,              \* var config
    searchConfigured,    \* var searchConfigured
    handlersRegistered,  \* http.HandleFunc has been called for the handlers
    Metrics,             \* var Metrics
    hreq,                \* the handler goroutines: one record per slot
    hist,                \* history: requests started, Stats returned, responses sent
    \* one scatter-gather call of the coordinator
    now,                 \* milliseconds since the call started
    phase,               \* "gathering" until the coordinator returns, then "returned"
    reply,               \* per target backend: what came back, and when
    firstOk,             \* arrival time of the first successful reply, -1 before it
    endAt,               \* when the coordinator returned, -1 before it
    result,              \* the backends whose replies the returned list holds as usable
    late,                \* the backends that replied after they were abandoned
    \* the per-backend concurrency limiter
    task,                \* per request task: its backend and how far it is
    permits,             \* per backend: the permits taken
    \* the Find merge
    fmReplies,           \* the successful backends' glob-match lists
    fmOrder,             \* the replies merged so far, in arrival order
    fmMerged,            \* the merged list of matches
    \* the Render merge
    rmReplies,           \* the successful backends' series lists
    rmOrder,             \* the replies merged so far, in arrival order
    rmMerged,            \* the merged list of series
    \* the two TTL caches
    ctime,               \* seconds on the caches' clock
    caches,              \* per cache instance: key -> entry
    cacheStats,          \* per cache instance: hits and misses
    lastGet,             \* what the last Get returned
    lastPut,             \* history: per cache of the engine, the last Put of a key
    \* the encoding of a render reply
    fetched,             \* the MultiFetchResponse the engine returned
    encoded,             \* the encoded reply
    \* the encoding of an info reply
    infos,               \* the map server -> info the engine returned
    infoEncoded,         \* the encoded reply
    \* the timing of requests
    timeBuckets,         \* var timeBuckets
    timed,               \* history: calls of bucketRequestTimes so far
    lastTimed            \* history: what the last call of bucketRequestTimes did

startvars == <<mainpc, env, config, searchConfigured, handlersRegistered>>
handlervars == <<Metrics, hreq, hist>>
scattervars == <<now, phase, reply, firstOk, endAt, result, late>>
limitervars == <<task, permits>>
fmvars == <<fmReplies, fmOrder, fmMerged>>
rmvars == <<rmReplies, rmOrder, rmMerged>>
cachevars == <<ctime, caches, cacheStats, lastGet, lastPut>>
encvars == <<fetched, encoded>>
infovars == <<infos, infoEncoded>>
bucketvars == <<timeBuckets, timed, lastTimed>>
\* the engine's parts, the encoders and the timing, which the handlers' steps
\* leave alone
enginevars == <<scattervars, limitervars, fmvars, rmvars, cachevars, encvars,
                infovars, bucketvars>>

(***************************************************************************)
(* main(): start-up.                                                       *)
(***************************************************************************)
Envs ==
    [configFlag : BOOLEAN, readOk : BOOLEAN, yamlOk : BOOLEAN,
     file : ConfigFiles, loggerOk : BOOLEAN,
     pidFlag : BOOLEAN, pidOk : BOOLEAN, serveOk : BOOLEAN]

\* main.go 598-615: -config is required, the file is read and parsed
main_LoadConfig ==
    /\ mainpc = "start"
    /\ IF env.configFlag /\ env.readOk /\ env.yamlOk
       THEN /\ config' = yamlUnmarshal(config, env.file)
            /\ mainpc' = "backends"
       ELSE /\ mainpc' = "fatal"
            /\ UNCHANGED config
    /\ UNCHANGED <<env, searchConfigured, handlersRegistered, handlervars, enginevars>>

\* main.go 617: if len(config.Backends) == 0
noBackendsNeverChecked(c) == FALSE

noBackends(c) == Len(c.Backends) = 0

\* main.go 617-627: no backends is fatal; then the logger configuration is applied
main_CheckBackends ==
    /\ mainpc = "backends"
    /\ mainpc' = IF noBackends(config) \/ ~env.loggerOk THEN "fatal" ELSE "setup"
    /\ UNCHANGED <<env, config, searchConfigured, handlersRegistered, handlervars, enginevars>>

\* main.go 638
isSearchConfigured(c) ==
    Len(c.CarbonSearch.Prefix) > 0 /\ Len(c.CarbonSearch.Backend) > 0

\* main.go 638-695: searchConfigured is set, the zipper is built, the handlers
\* are registered
main_Setup ==
    /\ mainpc = "setup"
    /\ searchConfigured' = isSearchConfigured(config)
    /\ handlersRegistered' = TRUE
    /\ mainpc' = "pidfile"
    /\ UNCHANGED <<env, config, handlervars, enginevars>>

\* main.go 774-780: the pidfile, when asked for
main_Pidfile ==
    /\ mainpc = "pidfile"
    /\ mainpc' = IF env.pidFlag /\ ~env.pidOk THEN "fatal" ELSE "serve"
    /\ UNCHANGED <<env, config, searchConfigured, handlersRegistered, handlervars, enginevars>>

\* main.go 782-791: gracehttp.Serve
main_Serve ==
    /\ mainpc = "serve"
    /\ mainpc' = IF env.serveOk THEN "serving" ELSE "fatal"
    /\ UNCHANGED <<env, config, searchConfigured, handlersRegistered, handlervars, enginevars>>

main ==
    \/ main_LoadConfig
    \/ main_CheckBackends
    \/ main_Setup
    \/ main_Pidfile
    \/ main_Serve

\* requests reach a handler only once main() serves
Serving == mainpc = "serving" /\ handlersRegistered


(***************************************************************************)
(* The engine as the front end sees it: zipper.Find, zipper.Render and     *)
(* zipper.Info return (result, stats, err).  One call fans out to every    *)
(* configured backend; `replies` is what each backend's attempt ended in   *)
(* when the coordinator returned.  Modelled from the design document       *)
(* (4.3 step 5, 4.4, 4.6, 7).                                              *)
(***************************************************************************)
\* the backends a call is sent to: all of config.Backends
Targets(c) == {c.Backends[i] : i \in DOMAIN c.Backends}

Replies(c) == [Targets(c) -> Outcomes]

NoReplies == [b \in BackendSet |-> "none"]

\* the backends whose reply is usable
Usable(replies) == {b \in DOMAIN replies : replies[b] = "ok"}

\* call-level error: all targeted backends failed or timed out
CallError(replies) == Usable(replies) = {}

ErrorsField(op) ==
    CASE op = "find" -> "FindErrors"
      [] op = "render" -> "RenderErrors"
      [] op = "info" -> "InfoErrors"

\* the Stats of one call: backend failures are absorbed and counted
CallStats(op, replies) ==
    [ZeroStats EXCEPT
        !.Timeouts = Count({b \in DOMAIN replies : replies[b] = "timeout"}),
        ![ErrorsField(op)] = Count({b \in DOMAIN replies : replies[b] = "error"})]

zipperCall(op, replies) ==
    [err |-> CallError(replies),
     stats |-> CallStats(op, replies),
     replies |-> replies]

(***************************************************************************)
(* The handlers.  A handler goroutine is a slot; its steps are the atomic  *)
(* counter updates and the engine call of the handler's code, in order.    *)
(***************************************************************************)
IdleReq ==
    [pc |-> "idle", op |-> "none", arg |-> "",
     invoked |-> FALSE, err |-> FALSE, stats |-> ZeroStats,
     replies |-> NoReplies, code |-> 0, body |-> "none"]

\* a goroutine that is not running a handler: it may take the next request
Free(s) == hreq[s].pc \in {"idle", "done"}

ZeroHist ==
    [started |-> 0, returned |-> ZeroStats,
     codes |-> [c \in {200, 400, 500} |-> 0]]

\* the request enters a handler: Metrics.Requests and the handler's own counter
Accept(s) ==
    /\ Serving
    /\ Free(s)
    /\ \A t \in Slots : t < s => ~Free(t)
    /\ hist.started < MaxRequests

Enter(s, op, arg, pc) ==
    /\ Accept(s)
    /\ hreq' = [hreq EXCEPT ![s] = [IdleReq EXCEPT !.pc = pc, !.op = op, !.arg = arg]]
    /\ hist' = [hist EXCEPT !.started = @ + 1]
    /\ UNCHANGED <<startvars, enginevars>>

\* the handler answers and returns: http.Error or the encoded reply, then
\* Metrics.Errors or Metrics.Responses
Respond(s, arg, out) ==
    /\ Metrics' = Inc(Metrics, out.counter, 1)
    /\ hreq' = [hreq EXCEPT ![s].pc = "done", ![s].code = out.code,
                            ![s].body = out.body, ![s].arg = arg]
    /\ hist' = [hist EXCEPT !.codes[out.code] = @ + 1]
    /\ UNCHANGED <<startvars, enginevars>>

\* result, stats, err := config.zipper.<Op>(ctx, logger, arg, ...)
Invoke(s, op) ==
    /\ hreq[s].pc = "call"
    /\ hreq[s].op = op
    /\ \E replies \in Replies(config) :
         LET r == zipperCall(op, replies) IN
         /\ hreq' = [hreq EXCEPT ![s].pc = "returned", ![s].invoked = TRUE,
                                 ![s].err = r.err, ![s].stats = r.stats,
                                 ![s].replies = r.replies]
         /\ hist' = [hist EXCEPT !.returned = StatsAdd(@, r.stats)]
    /\ UNCHANGED <<Metrics, startvars, enginevars>>

BadRequest(reason) == [code |-> 400, counter |-> "Errors", body |-> reason]

\* the body of a reply in `format`: the switch statements have no default case
Recognised(op, format) ==
    IF op = "info"
    THEN format \in {"protobuf", "protobuf3", "", "json"}
    ELSE format \in {"protobuf", "protobuf3", "json", "", "pickle"}

----------------------------------------------------------------------------
\* findHandler, main.go 189-193
findHandler_Enter(s) ==
    \E query \in Queries :
       /\ Enter(s, "find", query, "call")
       /\ Metrics' = Inc(Inc(Metrics, "Requests", 1), "FindRequests", 1)

\* main.go 203
findHandler_Find(s) == Invoke(s, "find")

\* main.go 204: sendStats(stats), before err is looked at
findFoldUnlessError(M, stats, err) == IF err THEN M ELSE sendStats(M, stats)

findFold(M, stats, err) == sendStats(M, stats)

findHandler_sendStats(s) ==
    /\ hreq[s].pc = "returned"
    /\ hreq[s].op = "find"
    /\ Metrics' = findFold(Metrics, hreq[s].stats, hreq[s].err)
    /\ hreq' = [hreq EXCEPT ![s].pc = "folded"]
    /\ UNCHANGED <<hist, startvars, enginevars>>

\* main.go 205-233: the engine's error, then the encoder's, then success
findOutcomeErrorIgnored(err, recognised, encFails) ==
    IF recognised /\ encFails
    THEN [code |-> 500, counter |-> "Errors", body |-> "error marshaling data"]
    ELSE [code |-> 200, counter |-> "Responses",
          body |-> IF recognised THEN "encoded" ELSE ""]

findOutcome(err, recognised, encFails) ==
    IF err
    THEN [code |-> 500, counter |-> "Errors", body |-> "error fetching the data"]
    ELSE IF recognised /\ encFails
    THEN [code |-> 500, counter |-> "Errors", body |-> "error marshaling data"]
    ELSE [code |-> 200, counter |-> "Responses",
          body |-> IF recognised THEN "encoded" ELSE ""]

findHandler_Reply(s) ==
    /\ hreq[s].pc = "folded"
    /\ hreq[s].op = "find"
    /\ \E recognised \in {Recognised("find", format) : format \in Formats},
          encFails \in BOOLEAN :
         Respond(s, hreq[s].arg, findOutcome(hreq[s].err, recognised, encFails))

----------------------------------------------------------------------------
\* renderHandler, main.go 304-305
renderHandler_Enter(s) ==
    /\ Enter(s, "render", "", "entered")
    /\ Metrics' = Inc(Inc(Metrics, "Requests", 1), "RenderRequests", 1)

\* main.go 313-369: the form, from, until, then the empty target
renderValidate(parseOk, fromOk, untilOk, target) ==
    IF ~parseOk THEN "failed to parse arguments"
    ELSE IF ~fromOk THEN "from is not a integer"
    ELSE IF ~untilOk THEN "until is not a integer"
    ELSE IF target = "" THEN "empty target"
    ELSE "ok"

ValidatedUncounted(s, op, target, verdict) ==
    /\ hreq[s].pc = "entered"
    /\ hreq[s].op = op
    /\ IF verdict = "ok"
       THEN /\ hreq' = [hreq EXCEPT ![s].pc = "call", ![s].arg = target]
            /\ UNCHANGED <<Metrics, hist, startvars, enginevars>>
       ELSE /\ hreq' = [hreq EXCEPT ![s].pc = "done", ![s].code = 400,
                                    ![s].body = verdict, ![s].arg = target]
            /\ hist' = [hist EXCEPT !.codes[400] = @ + 1]
            /\ UNCHANGED <<Metrics, startvars, enginevars>>

Validated(s, op, target, verdict) ==
    /\ hreq[s].pc = "entered"
    /\ hreq[s].op = op
    /\ IF verdict = "ok"
       THEN /\ hreq' = [hreq EXCEPT ![s].pc = "call", ![s].arg = target]
            /\ UNCHANGED <<Metrics, hist, startvars, enginevars>>
       ELSE Respond(s, target, BadRequest(verdict))

renderHandler_Validate(s) ==
    \E target \in Queries :
       \E verdict \in {renderValidate(parseOk, fromOk, untilOk, target) :
                          parseOk \in BOOLEAN, fromOk \in BOOLEAN,
                          untilOk \in BOOLEAN} :
          Validated(s, "render", target, verdict)

\* main.go 371
renderHandler_Render(s) == Invoke(s, "render")

\* main.go 372
renderFold(M, stats, err) == sendStats(M, stats)

renderHandler_sendStats(s) ==
    /\ hreq[s].pc = "returned"
    /\ hreq[s].op = "render"
    /\ Metrics' = renderFold(Metrics, hreq[s].stats, hreq[s].err)
    /\ hreq' = [hreq EXCEPT ![s].pc = "folded"]
    /\ UNCHANGED <<hist, startvars, enginevars>>

\* main.go 373-425
renderOutcome(err, recognised, encFails) ==
    IF err
    THEN [code |-> 500, counter |-> "Errors", body |-> "error fetching the data"]
    ELSE IF recognised /\ encFails
    THEN [code |-> 500, counter |-> "Errors", body |-> "error marshaling data"]
    ELSE [code |-> 200, counter |-> "Responses",
          body |-> IF recognised THEN "encoded" ELSE ""]

renderHandler_Reply(s) ==
    /\ hreq[s].pc = "folded"
    /\ hreq[s].op = "render"
    /\ \E recognised \in {Recognised("render", format) : format \in Formats},
          encFails \in BOOLEAN :
         Respond(s, hreq[s].arg, renderOutcome(hreq[s].err, recognised, encFails))


----------------------------------------------------------------------------
\* infoHandler, main.go 472-473
infoHandler_Enter(s) ==
    /\ Enter(s, "info", "", "entered")
    /\ Metrics' = Inc(Inc(Metrics, "Requests", 1), "InfoRequests", 1)

\* main.go 480-509: the form, then the empty target
infoValidate(parseOk, target) ==
    IF ~parseOk THEN "failed to parse arguments"
    ELSE IF target = "" THEN "info: empty target"
    ELSE "ok"

infoHandler_Validate(s) ==
    \E target \in Queries :
       \E verdict \in {infoValidate(parseOk, target) : parseOk \in BOOLEAN} :
          Validated(s, "info", target, verdict)

\* main.go 511
infoHandler_Info(s) == Invoke(s, "info")

\* main.go 512
infoFold(M, stats, err) == sendStats(M, stats)

infoHandler_sendStats(s) ==
    /\ hreq[s].pc = "returned"
    /\ hreq[s].op = "info"
    /\ Metrics' = infoFold(Metrics, hreq[s].stats, hreq[s].err)
    /\ hreq' = [hreq EXCEPT ![s].pc = "folded"]
    /\ UNCHANGED <<hist, startvars, enginevars>>

\* main.go 513-560
infoOutcome(err, recognised, encFails) ==
    IF err
    THEN [code |-> 500, counter |-> "Errors",
          body |-> "info: error processing request"]
    ELSE IF recognised /\ encFails
    THEN [code |-> 500, counter |-> "Errors", body |-> "error marshaling data"]
    ELSE [code |-> 200, counter |-> "Responses",
          body |-> IF recognised THEN "encoded" ELSE ""]

infoHandler_Reply(s) ==
    /\ hreq[s].pc = "folded"
    /\ hreq[s].op = "info"
    /\ \E recognised \in {Recognised("info", format) : format \in Formats},
          encFails \in BOOLEAN :
         Respond(s, hreq[s].arg, infoOutcome(hreq[s].err, recognised, encFails))

----------------------------------------------------------------------------
\* lbCheckHandler, main.go 571
lbCheckHandler_Enter(s) ==
    /\ Enter(s, "lb_check", "", "entered")
    /\ Metrics' = Inc(Metrics, "Requests", 1)

\* main.go 574-579: "Ok", then Metrics.Responses
lbCheckHandler_Reply(s) ==
    /\ hreq[s].pc = "entered"
    /\ hreq[s].op = "lb_check"
    /\ Respond(s, "", [code |-> 200, counter |-> "Responses", body |-> "Ok"])

Handlers(s) ==
    \/ findHandler_Enter(s)
    \/ findHandler_Find(s)
    \/ findHandler_sendStats(s)
    \/ findHandler_Reply(s)
    \/ renderHandler_Enter(s)
    \/ renderHandler_Validate(s)
    \/ renderHandler_Render(s)
    \/ renderHandler_sendStats(s)
    \/ renderHandler_Reply(s)
    \/ infoHandler_Enter(s)
    \/ infoHandler_Validate(s)
    \/ infoHandler_Info(s)
    \/ infoHandler_sendStats(s)
    \/ infoHandler_Reply(s)
    \/ lbCheckHandler_Enter(s)
    \/ lbCheckHandler_Reply(s)

(***************************************************************************)
(* Spec: a serving process and its handlers.  SpecStartup: main() from its *)
(* first line, under every environment, followed by the requests it serves.*)
(***************************************************************************)
vars == <<startvars, handlervars, enginevars>>

\* parts of the program a specification does not exercise stay as constructed
IdleScatter ==
    /\ now = 0 /\ phase = "idle" /\ reply = << >> /\ firstOk = -1
    /\ endAt = -1 /\ result = {} /\ late = {}

IdleLimiter == task = << >> /\ permits = << >>

IdleFindMerge == fmReplies = << >> /\ fmOrder = << >> /\ fmMerged = << >>

IdleRenderMerge == rmReplies = << >> /\ rmOrder = << >> /\ rmMerged = << >>

IdleCaches ==
    /\ ctime = 0 /\ caches = << >> /\ cacheStats = << >> /\ lastGet = << >>
    /\ lastPut = << >>

IdleEncoder == fetched = << >> /\ encoded = << >>

IdleInfo == infos = << >> /\ infoEncoded = << >>

IdleBuckets == timeBuckets = << >> /\ timed = 0 /\ lastTimed = << >>

IdleEngine ==
    /\ IdleScatter /\ IdleLimiter /\ IdleFindMerge /\ IdleRenderMerge
    /\ IdleCaches /\ IdleEncoder /\ IdleInfo /\ IdleBuckets


InitHandlers ==
    /\ Metrics = ZeroMetrics
    /\ hreq = [s \in Slots |-> IdleReq]
    /\ hist = ZeroHist

\* main() has run to gracehttp.Serve with configuration c
InitProcess(c) ==
    /\ mainpc = "serving"
    /\ env = [configFlag |-> TRUE, readOk |-> TRUE, yamlOk |-> TRUE,
              file |-> [Backends |-> c.Backends,
                        Prefix |-> c.CarbonSearch.Prefix,
                        Backend |-> c.CarbonSearch.Backend],
              loggerOk |-> TRUE, pidFlag |-> FALSE, pidOk |-> TRUE,
              serveOk |-> TRUE]
    /\ config = c
    /\ searchConfigured = isSearchConfigured(c)
    /\ handlersRegistered = TRUE

InitServing == InitProcess(ServingConfig)

Init == InitServing /\ InitHandlers /\ IdleEngine

Next == \E s \in Slots : Handlers(s)

Spec == Init /\ [][Next]_vars

InitStartup ==
    /\ mainpc = "start"
    /\ env \in Envs
    /\ config = defaultConfig
    /\ searchConfigured = FALSE
    /\ handlersRegistered = FALSE
    /\ InitHandlers
    /\ IdleEngine

NextStartup ==
    \/ main
    \/ Handlers(1)

SpecStartup == InitStartup /\ [][NextStartup]_vars


(***************************************************************************)
(* Properties of the front end.                                            *)
(***************************************************************************)
EngineOps == {"find", "render", "info"}

\* C1: a Find, Render or Info call returns an error exactly when no targeted
\* backend gave a usable reply (one usable reply makes the call succeed, however
\* many others failed or timed out); the handler answers a call error with one
\* aggregate HTTP 500 and every failure response is counted in Metrics.Errors.
C1_ErrorIffAllBackendsFailed ==
    /\ \A s \in Slots :
          hreq[s].invoked =>
             /\ hreq[s].err <=>
                   (\A b \in Targets(config) : hreq[s].replies[b] # "ok")
             /\ (hreq[s].pc = "done" /\ hreq[s].err) =>
                   /\ hreq[s].code = 500
                   /\ hreq[s].body \in {"error fetching the data",
                                        "info: error processing request"}
             /\ (hreq[s].pc = "done" /\ hreq[s].code = 200) => ~hreq[s].err
    /\ Metrics.Errors = hist.codes[400] + hist.codes[500]
    /\ Metrics.Responses = hist.codes[200]

\* one call succeeded although a backend failed, another failed with every
\* backend down and was answered 500
C1_Witness ==
    /\ \E s \in Slots :
          /\ hreq[s].pc = "done" /\ hreq[s].invoked /\ ~hreq[s].err
          /\ hreq[s].code = 200
          /\ \E b \in Targets(config) : hreq[s].replies[b] # "ok"
    /\ \E s \in Slots :
          /\ hreq[s].pc = "done" /\ hreq[s].invoked /\ hreq[s].err
          /\ hreq[s].code = 500
    /\ Metrics.Errors = 1

\* the Stats returned to handlers that have not yet called sendStats
ReturnedNotFolded(f) ==
    SetSum({s \in Slots : hreq[s].pc = "returned"},
           [s \in Slots |-> hreq[s].stats[f]])

\* C4: the Stats of every engine call a handler made is folded into the
\* process-wide counters exactly once, whether the call failed or succeeded:
\* each counter equals the sum of that field over all Stats returned so far,
\* less those of the handlers standing between the call's return and sendStats.
C4_StatsFoldedExactlyOnce ==
    \A f \in StatsFields :
        Metrics[f] + ReturnedNotFolded(f) = hist.returned[f]

\* a call failed with a timeout in its Stats, its handler has answered 500, and
\* the timeout is in Metrics.Timeouts
C4_Witness ==
    /\ \E s \in Slots :
          /\ hreq[s].pc = "done" /\ hreq[s].invoked /\ hreq[s].err
          /\ hreq[s].stats.Timeouts > 0
    /\ \A s \in Slots : hreq[s].pc # "returned"
    /\ Metrics.Timeouts = hist.returned.Timeouts
    /\ Metrics.Timeouts > 0

\* C5: a find, render or info request with an empty query / target never reaches
\* the engine, folds no Stats and is answered as an error.
C5_EmptyArgumentNeverReachesEngine ==
    \A s \in Slots :
        (hreq[s].op \in EngineOps /\ hreq[s].arg = ""
            /\ hreq[s].pc \notin {"idle", "entered"}) =>
           /\ ~hreq[s].invoked
           /\ hreq[s].stats = ZeroStats
           /\ hreq[s].pc = "done" => hreq[s].code = 400

(***************************************************************************)
(* Properties of start-up.                                                 *)
(***************************************************************************)
WellFormedSearch(c) ==
    (c.CarbonSearch.Prefix = "") <=> (c.CarbonSearch.Backend = "")

Started == handlersRegistered \/ mainpc = "serving" \/ Metrics.Requests > 0

\* C10 as stated: handlers are registered and requests served only with a
\* non-empty backend list and a CarbonSearch configuration that sets both of
\* Prefix and Backend or neither.
C10_OnlyWellFormedConfigServes ==
    Started => Len(config.Backends) > 0 /\ WellFormedSearch(config)

\* C10 as amended: handlers are registered and requests served only with a
\* configuration file that was given, read and parsed and a non-empty backend
\* list; a CarbonSearch configuration that sets only one of Prefix and Backend
\* does not stop start-up, it leaves search routing off.
C10_OnlyConfigWithBackendsServes ==
    /\ Started =>
          /\ Len(config.Backends) > 0
          /\ env.configFlag /\ env.readOk /\ env.yamlOk
    /\ mainpc \in {"pidfile", "serve", "serving"} =>
          /\ handlersRegistered
          /\ searchConfigured = isSearchConfigured(config)
          /\ ~WellFormedSearch(config) => ~searchConfigured
    /\ (mainpc = "fatal" /\ ~handlersRegistered) => Metrics.Requests = 0
    /\ Metrics.Requests > 0 => mainpc = "serving"

\* a process whose CarbonSearch sets the Prefix alone serves a request
C10_Witness ==
    /\ mainpc = "serving"
    /\ config.CarbonSearch.Prefix # ""
    /\ config.CarbonSearch.Backend = ""
    /\ ~searchConfigured
    /\ Metrics.Responses > 0


(***************************************************************************)
(* The Scatter-Gather Coordinator (design document 4.3, 5): one call,      *)
(* from dispatch to return and the replies that come in afterwards.  Time  *)
(* is in milliseconds since the call started.                              *)
(***************************************************************************)
\* target backends of the call's configuration
NumTargets == 3

\* the instants at which a backend may reply (beside the deadlines themselves)
Instants == {0, 200, 1000, 2000, 5000, 10000}

ScatterConfig ==
    [defaultConfig EXCEPT !.Backends = [i \in 1..NumTargets |-> i]]

SetMin(S) == CHOOSE x \in S : \A y \in S : x <= y

\* when the coordinator stops waiting: Timeouts.Global from the call's start,
\* and Timeouts.AfterStarted from the first successful reply, whichever is first
Deadline(first, timeouts) ==
    IF first >= 0
    THEN Min(first + timeouts.AfterStarted, timeouts.Global)
    ELSE timeouts.Global

CoordinatorDeadline == Deadline(firstOk, zipperConfig(config).Timeouts)

Outstanding == {b \in DOMAIN reply : reply[b].st = "outstanding"}

\* abandoned backends: recorded as a timeout failure without a reply
Abandoned == {b \in DOMAIN reply : reply[b].st = "timeout" /\ reply[b].at = -1}

\* step 5: every reply collected is returned; these are the usable ones
Collected == {b \in DOMAIN reply : reply[b].st = "ok"}

\* steps 1, 2: the operation is issued to every target backend
Dispatch ==
    /\ phase = "idle"
    /\ \E T \in SUBSET Targets(config) :
          /\ T # {}
          /\ reply' = [b \in T |-> [st |-> "outstanding", at |-> -1]]
    /\ phase' = "gathering"
    /\ UNCHANGED <<now, firstOk, endAt, result, late>>
    /\ UNCHANGED <<startvars, handlervars, infovars, bucketvars,
                   limitervars, fmvars, rmvars,
                   cachevars, encvars>>

\* step 3: a reply arrives and is recorded; the first successful one starts the
\* secondary deadline; with the last one in, the coordinator returns.  A
\* connection that is not established within Timeouts.Connect fails then.
BackendReply(b, outcome) ==
    /\ phase = "gathering"
    /\ b \in Outstanding
    /\ outcome = "timeout" => now = zipperConfig(config).Timeouts.Connect
    /\ reply' = [reply EXCEPT ![b] = [st |-> outcome, at |-> now]]
    /\ firstOk' = IF outcome = "ok" /\ firstOk = -1 THEN now ELSE firstOk
    /\ IF Outstanding = {b}
       THEN /\ phase' = "returned"
            /\ endAt' = now
            /\ result' = {x \in DOMAIN reply' : reply'[x].st = "ok"}
       ELSE UNCHANGED <<phase, endAt, result>>
    /\ UNCHANGED <<now, late>>
    /\ UNCHANGED <<startvars, handlervars, infovars, bucketvars,
                   limitervars, fmvars, rmvars,
                   cachevars, encvars>>

\* time passes while the coordinator waits, up to its deadline
Tick ==
    /\ phase = "gathering"
    /\ now < CoordinatorDeadline
    /\ now' = SetMin({CoordinatorDeadline} \cup {i \in Instants : i > now})
    /\ UNCHANGED <<phase, reply, firstOk, endAt, result, late>>
    /\ UNCHANGED <<startvars, handlervars, infovars, bucketvars,
                   limitervars, fmvars, rmvars,
                   cachevars, encvars>>

\* steps 3, 4: the deadline elapses; the backends still outstanding are abandoned
\* and recorded as timeout failures, and the coordinator returns
Abandon ==
    /\ phase = "gathering"
    /\ now >= CoordinatorDeadline
    /\ reply' = [b \in DOMAIN reply |->
                    IF b \in Outstanding THEN [st |-> "timeout", at |-> -1]
                    ELSE reply[b]]
    /\ phase' = "returned"
    /\ endAt' = now
    /\ result' = Collected
    /\ UNCHANGED <<now, firstOk, late>>
    /\ UNCHANGED <<startvars, handlervars, infovars, bucketvars,
                   limitervars, fmvars, rmvars,
                   cachevars, encvars>>

\* section 5: the result of an abandoned task is discarded, not awaited
LateReply(b) ==
    /\ phase = "returned"
    /\ b \in Abandoned \ late
    /\ late' = late \cup {b}
    /\ UNCHANGED <<now, phase, reply, firstOk, endAt, result>>
    /\ UNCHANGED <<startvars, handlervars, infovars, bucketvars,
                   limitervars, fmvars, rmvars,
                   cachevars, encvars>>

InitScatter ==
    /\ InitProcess(ScatterConfig)
    /\ InitHandlers
    /\ IdleInfo /\ IdleBuckets
    /\ IdleScatter /\ IdleLimiter /\ IdleFindMerge /\ IdleRenderMerge
    /\ IdleCaches /\ IdleEncoder

NextScatter ==
    \/ Dispatch
    \/ \E b \in Targets(config), outcome \in Outcomes : BackendReply(b, outcome)
    \/ Tick
    \/ Abandon
    \/ \E b \in Targets(config) : LateReply(b)

SpecScatter == InitScatter /\ [][NextScatter]_vars

\* the arrival time of the first reply of any kind, -1 if none came in time
FirstReplyAt ==
    LET times == {reply[b].at : b \in DOMAIN reply} \ {-1}
    IN IF times = {} THEN -1 ELSE SetMin(times)

\* what the coordinator's return must look like if it stops waiting at `stop`
ReturnedAt(stop) ==
    /\ endAt <= stop
    /\ Abandoned # {} => endAt = stop
    /\ Outstanding = {}
    /\ result = Collected
    /\ \A b \in result : 0 <= reply[b].at /\ reply[b].at <= endAt
    /\ late \subseteq Abandoned
    /\ late \cap result = {}

ConcurrencyLimit == 1
\* per-backend request tasks that the logical calls in progress start
NumTasks == 3

Tasks == 1..NumTasks

LimiterConfig ==
    [ServingConfig EXCEPT !.ConcurrencyLimitPerServer = ConcurrencyLimit]

\* the size of each backend's permit pool
PoolSize == zipperConfig(config).ConcurrencyLimitPerServer

\* how a request that holds a permit ends
Exits == {"success", "error", "cancelled"}

IdleTask == [st |-> "idle", backend |-> 0, blocked |-> FALSE]

\* a logical call issues a request to backend b: the task asks for a permit
Issue(t, b) ==
    /\ task[t].st = "idle"
    /\ task' = [task EXCEPT ![t] = [st |-> "waiting", backend |-> b,
                                    blocked |-> permits[b] >= PoolSize]]
    /\ UNCHANGED permits
    /\ UNCHANGED <<startvars, handlervars, infovars, bucketvars,
                   scattervars, fmvars, rmvars,
                   cachevars, encvars>>

\* Acquire(): blocks until a permit is available
Acquire(t) ==
    /\ task[t].st = "waiting"
    /\ permits[task[t].backend] < PoolSize
    /\ permits' = [permits EXCEPT ![task[t].backend] = @ + 1]
    /\ task' = [task EXCEPT ![t].st = "inflight"]
    /\ UNCHANGED <<startvars, handlervars, infovars, bucketvars,
                   scattervars, fmvars, rmvars,
                   cachevars, encvars>>

\* the request ends and Release(permit) runs, on every exit path
Finish(t, exit) ==
    /\ task[t].st = "inflight"
    /\ permits' = [permits EXCEPT ![task[t].backend] = @ - 1]
    /\ task' = [task EXCEPT ![t].st = exit]
    /\ UNCHANGED <<startvars, handlervars, infovars, bucketvars,
                   scattervars, fmvars, rmvars,
                   cachevars, encvars>>

InitLimiter ==
    /\ InitProcess(LimiterConfig)
    /\ InitHandlers
    /\ IdleInfo /\ IdleBuckets
    /\ task = [t \in Tasks |-> IdleTask]
    /\ permits = [b \in Targets(LimiterConfig) |-> 0]
    /\ IdleScatter /\ IdleFindMerge /\ IdleRenderMerge /\ IdleCaches
    /\ IdleEncoder

NextLimiter ==
    \/ \E t \in Tasks, b \in Targets(config) : Issue(t, b)
    \/ \E t \in Tasks : Acquire(t)
    \/ \E t \in Tasks, exit \in Exits : Finish(t, exit)

\* a goroutine that can take a permit does, and a request on the wire ends (by
\* its reply, its error or the deadline's cancellation)
FairLimiter ==
    \A t \in Tasks :
        /\ WF_vars(Acquire(t))
        /\ WF_vars(\E exit \in Exits : Finish(t, exit))

SpecLimiter == InitLimiter /\ [][NextLimiter]_vars /\ FairLimiter

\* requests truly in flight to backend b
InFlight(b) == Count({t \in Tasks : task[t].st = "inflight" /\ task[t].backend = b})

\* C2: the requests in flight to a backend never exceed the configured
\* per-backend limit, whatever the interleaving of the calls; a request that
\* waits for a permit stays waiting until it is dispatched (it is not dropped
\* or rejected), and it is dispatched eventually.
C2_LimitHeldAndWaitersDispatched ==
    /\ [](\A b \in Targets(config) :
             /\ InFlight(b) <= config.ConcurrencyLimitPerServer
             /\ permits[b] = InFlight(b))
    /\ [][\A t \in Tasks :
             task[t].st = "waiting" => task'[t].st \in {"waiting", "inflight"}]_vars
    /\ \A t \in Tasks : (task[t].st = "waiting") ~> (task[t].st = "inflight")

\* a request issued with every permit of its backend taken has been dispatched
C2_Witness ==
    \E t \in Tasks :
        /\ task[t].blocked
        /\ task[t].st = "inflight"
        /\ InFlight(task[t].backend) = config.ConcurrencyLimitPerServer


(***************************************************************************)
(* The Response Merger for Find (design document 4.4): the union of the    *)
(* successful backends' glob-match lists, deduplicated by path, the first  *)
(* match seen for a path kept.                                             *)
(***************************************************************************)
\* replies merged in one run, a reply merged again counted again
MaxMerges == 3

FindPaths == {"a.b", "a.c"}
FindBackends == {1, 2, 3}

GlobMatches == [path : FindPaths, isLeaf : BOOLEAN]

\* a backend's reply: a list of matches, no path twice
GlobReplies ==
    {ms \in UNION {[1..n -> GlobMatches] : n \in 0..Cardinality(FindPaths)} :
        \A i, j \in DOMAIN ms : i # j => ms[i].path # ms[j].path}

HasPath(ms, p) == \E i \in DOMAIN ms : ms[i].path = p

RECURSIVE MergeMatchesByValue(_, _)
MergeMatchesByValue(acc, ms) ==
    IF ms = << >> THEN acc
    ELSE MergeMatchesByValue(
            IF \E i \in DOMAIN acc : acc[i] = Head(ms) THEN acc
            ELSE Append(acc, Head(ms)),
            Tail(ms))

\* the matches of one reply are added to the merged list, unless the path is
\* already there
RECURSIVE MergeMatches(_, _)
MergeMatches(acc, ms) ==
    IF ms = << >> THEN acc
    ELSE MergeMatches(
            IF HasPath(acc, Head(ms).path) THEN acc ELSE Append(acc, Head(ms)),
            Tail(ms))

\* a successful backend's reply arrives and is merged
MergeFindReply(b) ==
    /\ Len(fmOrder) < MaxMerges
    /\ fmOrder' = Append(fmOrder, b)
    /\ fmMerged' = MergeMatches(fmMerged, fmReplies[b])
    /\ UNCHANGED fmReplies
    /\ UNCHANGED <<startvars, handlervars, infovars, bucketvars,
                   scattervars, limitervars, rmvars,
                   cachevars, encvars>>

InitFindMerge ==
    /\ InitServing
    /\ InitHandlers
    /\ IdleInfo /\ IdleBuckets
    /\ fmReplies \in [FindBackends -> GlobReplies]
    /\ fmOrder = << >>
    /\ fmMerged = << >>
    /\ IdleScatter /\ IdleLimiter /\ IdleRenderMerge /\ IdleCaches /\ IdleEncoder

NextFindMerge == \E b \in FindBackends : MergeFindReply(b)

SpecFindMerge == InitFindMerge /\ [][NextFindMerge]_vars

PathSet(ms) == {ms[i].path : i \in DOMAIN ms}

\* the matches of the replies `order` names, one reply after the other
RECURSIVE Arrived(_)
Arrived(order) ==
    IF order = << >> THEN << >>
    ELSE fmReplies[Head(order)] \o Arrived(Tail(order))

\* the replies of `order` merged one at a time
RECURSIVE MergeInOrder(_, _)
MergeInOrder(acc, order) ==
    IF order = << >> THEN acc
    ELSE MergeInOrder(MergeMatches(acc, fmReplies[Head(order)]), Tail(order))

\* the orders in which the replies of the backends S can arrive, each once
ArrivalOrders(S) ==
    {o \in [1..Cardinality(S) -> S] : \A i, j \in DOMAIN o : i # j => o[i] # o[j]}

\* C6: the merged Find result has one entry per path; its paths are the union
\* of the paths of the replies merged; the path set is the same in whatever
\* order those replies arrive and however they are grouped (some merged as
\* one batch, the rest after), and merging a reply again changes nothing; the
\* leaf flag of a path is that of the first match seen for it.
C6_FindMergeIsUnionByPath ==
    LET n == Len(fmOrder)
        all == Arrived(fmOrder)
    IN
    /\ \A i, j \in DOMAIN fmMerged : i # j => fmMerged[i].path # fmMerged[j].path
    /\ PathSet(fmMerged) = UNION {PathSet(fmReplies[fmOrder[k]]) : k \in 1..n}
    /\ \A o \in ArrivalOrders({fmOrder[k] : k \in 1..n}) :
          PathSet(MergeInOrder(<< >>, o)) = PathSet(fmMerged)
    /\ \A k \in 0..n :
          PathSet(MergeMatches(MergeMatches(<< >>, Arrived(SubSeq(fmOrder, 1, k))),
                               Arrived(SubSeq(fmOrder, k + 1, n))))
             = PathSet(fmMerged)
    /\ \A k \in 1..n : MergeMatches(fmMerged, fmReplies[fmOrder[k]]) = fmMerged
    /\ \A i \in DOMAIN fmMerged :
          \E k \in DOMAIN all :
             /\ all[k] = fmMerged[i]
             /\ \A h \in 1..(k - 1) : all[h].path # fmMerged[i].path

\* three replies have been merged, one of them a second time; together they
\* name both paths and two of them disagree on the leaf flag of one
C6_Witness ==
    /\ Len(fmOrder) = MaxMerges
    /\ \E h, k \in DOMAIN fmOrder : h # k /\ fmOrder[h] = fmOrder[k]
    /\ PathSet(fmMerged) = FindPaths
    /\ \E h, k \in DOMAIN fmOrder :
          \E i \in DOMAIN fmReplies[fmOrder[h]], j \in DOMAIN fmReplies[fmOrder[k]] :
             /\ fmReplies[fmOrder[h]][i].path = fmReplies[fmOrder[k]][j].path
             /\ fmReplies[fmOrder[h]][i].isLeaf # fmReplies[fmOrder[k]][j].isLeaf


(***************************************************************************)
(* The Response Merger for Render (design document 4.4): series grouped    *)
(* by metric name; two series of one name merged position by position.     *)
(***************************************************************************)
\* points of a series
SeriesLen == 2

RenderBackends == {1, 2}
\* a point: the value the series carries and whether it is flagged absent
Points == {[value |-> 0, absent |-> TRUE], [value |-> 0, absent |-> FALSE],
           [value |-> 7, absent |-> FALSE], [value |-> 9, absent |-> TRUE]}

Series(name, points) ==
    [name |-> name, startTime |-> 0, stepTime |-> 60,
     stopTime |-> 60 * SeriesLen,
     values |-> [i \in 1..SeriesLen |-> points[i].value],
     isAbsent |-> [i \in 1..SeriesLen |-> points[i].absent]]

\* the series a backend can hold for the requested metric
RequestedSeries == {Series("m.req", ps) : ps \in [1..SeriesLen -> Points]}

\* a second metric, which a backend holds or does not
OtherSeries ==
    Series("m.other", [i \in 1..SeriesLen |->
                          [value |-> 7, absent |-> (i = SeriesLen)]])

\* a backend's reply: at most one series per metric name
RenderReplies ==
    {<< >>, <<OtherSeries>>}
        \cup {<<r>> : r \in RequestedSeries}
        \cup {<<r, OtherSeries>> : r \in RequestedSeries}
        \cup {<<OtherSeries, r>> : r \in RequestedSeries}

MergeSeriesZeroIsAbsent(first, second) ==
    [first EXCEPT
        !.values = [i \in DOMAIN first.values |->
                       IF first.isAbsent[i] \/ first.values[i] = 0
                       THEN second.values[i] ELSE first.values[i]],
        !.isAbsent = [i \in DOMAIN first.isAbsent |->
                       first.isAbsent[i] /\ second.isAbsent[i]]]

\* a gap of the series seen first is filled from the one seen later
MergeSeries(first, second) ==
    [first EXCEPT
        !.values = [i \in DOMAIN first.values |->
                       IF first.isAbsent[i] /\ ~second.isAbsent[i]
                       THEN second.values[i] ELSE first.values[i]],
        !.isAbsent = [i \in DOMAIN first.isAbsent |->
                       first.isAbsent[i] /\ second.isAbsent[i]]]

\* one series joins the merged list: merged into the series of its name, or
\* added under a new name
MergeOneSeries(acc, r) ==
    IF \E i \in DOMAIN acc : acc[i].name = r.name
    THEN [i \in DOMAIN acc |->
             IF acc[i].name = r.name THEN MergeSeries(acc[i], r) ELSE acc[i]]
    ELSE Append(acc, r)

RECURSIVE MergeRenderSeries(_, _)
MergeRenderSeries(acc, series) ==
    IF series = << >> THEN acc
    ELSE MergeRenderSeries(MergeOneSeries(acc, Head(series)), Tail(series))

\* a successful backend's reply arrives and is merged
MergeRenderReply(b) ==
    /\ \A k \in DOMAIN rmOrder : rmOrder[k] # b
    /\ rmOrder' = Append(rmOrder, b)
    /\ rmMerged' = MergeRenderSeries(rmMerged, rmReplies[b])
    /\ UNCHANGED rmReplies
    /\ UNCHANGED <<startvars, handlervars, infovars, bucketvars,
                   scattervars, limitervars, fmvars,
                   cachevars, encvars>>

InitRenderMerge ==
    /\ InitServing
    /\ InitHandlers
    /\ IdleInfo /\ IdleBuckets
    /\ rmReplies \in [RenderBackends -> RenderReplies]
    /\ rmOrder = << >>
    /\ rmMerged = << >>
    /\ IdleScatter /\ IdleLimiter /\ IdleFindMerge /\ IdleCaches /\ IdleEncoder

NextRenderMerge == \E b \in RenderBackends : MergeRenderReply(b)

SpecRenderMerge == InitRenderMerge /\ [][NextRenderMerge]_vars

Names(series) == {series[i].name : i \in DOMAIN series}

SeriesOf(series, name) ==
    series[CHOOSE i \in DOMAIN series : series[i].name = name]

\* the backends already merged that hold `name`, in arrival order
HoldersOf(name) ==
    SelectSeq(rmOrder, LAMBDA b : name \in Names(rmReplies[b]))

\* C7: in the merged Render result each metric name merged so far has one
\* series; a metric held by one backend only is passed through unchanged; of
\* two series of one metric, a position present in both has the value of the
\* series that arrived first, a position absent in exactly one has the other
\* series' value and is present, a position absent in both is absent.
C7_RenderMergePositionByPosition ==
    /\ Names(rmMerged) = UNION {Names(rmReplies[rmOrder[k]]) : k \in DOMAIN rmOrder}
    /\ \A i, j \in DOMAIN rmMerged : i # j => rmMerged[i].name # rmMerged[j].name
    /\ \A name \in Names(rmMerged) :
          LET holders == HoldersOf(name)
              merged  == SeriesOf(rmMerged, name)
              first   == SeriesOf(rmReplies[holders[1]], name)
          IN  IF Len(holders) = 1
              THEN merged = first
              ELSE LET second == SeriesOf(rmReplies[holders[2]], name) IN
                   /\ Len(holders) = 2
                   /\ DOMAIN merged.values = 1..SeriesLen
                   /\ DOMAIN merged.isAbsent = 1..SeriesLen
                   /\ \A p \in 1..SeriesLen :
                         /\ ~first.isAbsent[p] /\ ~second.isAbsent[p]
                               => /\ ~merged.isAbsent[p]
                                  /\ merged.values[p] = first.values[p]
                         /\ ~first.isAbsent[p] /\ second.isAbsent[p]
                               => /\ ~merged.isAbsent[p]
                                  /\ merged.values[p] = first.values[p]
                         /\ first.isAbsent[p] /\ ~second.isAbsent[p]
                               => /\ ~merged.isAbsent[p]
                                  /\ merged.values[p] = second.values[p]
                         /\ first.isAbsent[p] /\ second.isAbsent[p]
                               => merged.isAbsent[p]

\* both backends held the requested metric and only one the other metric;
\* one position was present in both with different values, another absent in
\* the first series only
C7_Witness ==
    /\ Len(rmOrder) = 2
    /\ Len(HoldersOf("m.req")) = 2
    /\ Len(HoldersOf("m.other")) = 1
    /\ LET first  == SeriesOf(rmReplies[rmOrder[1]], "m.req")
           second == SeriesOf(rmReplies[rmOrder[2]], "m.req")
       IN  /\ \E p \in 1..SeriesLen :
                 /\ ~first.isAbsent[p] /\ ~second.isAbsent[p]
                 /\ first.values[p] # second.values[p]
           /\ \E p \in 1..SeriesLen :
                 first.isAbsent[p] /\ ~second.isAbsent[p]


(***************************************************************************)
(* The TTL caches (design document 4.5): main() makes two, the path cache  *)
(* and the search cache, with the configured expiration delay.  Expiry is  *)
(* evaluated at lookup: an entry older than the delay is treated as absent *)
(* and evicted.                                                            *)
(***************************************************************************)
\* Get calls in one run
MaxGets == 2

CacheRoles == {"PathCache", "SearchCache"}
CacheKeys == {"a.b.*"}
CacheValues == {"s1", "s2"}
\* seconds at which something happens
ClockInstants == {0, 599, 600, 601, 1201}

NoEntry == [value |-> "", at |-> -1]
NoGet ==
    [role |-> "", key |-> "", at |-> -1, since |-> NoEntry, found |-> FALSE,
     value |-> "", hits |-> 0, misses |-> 0, evicted |-> FALSE]

\* the cache the engine uses in a role
CacheOf(role) == zipperConfig(config)[role]

Instances == {CacheOf(role).id : role \in CacheRoles}

Expired(entry, t, expireDelaySec) == t - entry.at > expireDelaySec

\* Get calls so far
Gets ==
    SetSum(Instances,
           [id \in Instances |-> cacheStats[id].hits + cacheStats[id].misses])

Put(role, k, v) ==
    LET entry == [value |-> v, at |-> ctime] IN
    /\ caches' = [caches EXCEPT ![CacheOf(role).id][k] = entry]
    /\ lastPut' = [lastPut EXCEPT ![role][k] = entry]
    /\ UNCHANGED <<ctime, cacheStats, lastGet>>
    /\ UNCHANGED <<startvars, handlervars, infovars, bucketvars,
                   scattervars, limitervars, fmvars,
                   rmvars, encvars>>

Get(role, k) ==
    LET c     == CacheOf(role)
        entry == caches[c.id][k]
        live  == entry # NoEntry /\ ~Expired(entry, ctime, c.expireDelaySec)
    IN
    /\ Gets < MaxGets
    /\ cacheStats' = [cacheStats EXCEPT ![c.id] =
                         IF live THEN Inc(@, "hits", 1) ELSE Inc(@, "misses", 1)]
    /\ caches' = IF live THEN caches ELSE [caches EXCEPT ![c.id][k] = NoEntry]
    /\ lastGet' = [role |-> role, key |-> k, at |-> ctime,
                   since |-> lastPut[role][k],
                   found |-> live,
                   value |-> IF live THEN entry.value ELSE "",
                   hits |-> cacheStats'[c.id].hits - cacheStats[c.id].hits,
                   misses |-> cacheStats'[c.id].misses - cacheStats[c.id].misses,
                   evicted |-> caches'[c.id][k] = NoEntry]
    /\ UNCHANGED <<ctime, lastPut>>
    /\ UNCHANGED <<startvars, handlervars, infovars, bucketvars,
                   scattervars, limitervars, fmvars,
                   rmvars, encvars>>

\* time passes
Advance(t) ==
    /\ t > ctime
    /\ ctime' = t
    /\ UNCHANGED <<caches, cacheStats, lastGet, lastPut>>
    /\ UNCHANGED <<startvars, handlervars, infovars, bucketvars,
                   scattervars, limitervars, fmvars,
                   rmvars, encvars>>

InitCaches ==
    /\ InitServing
    /\ InitHandlers
    /\ IdleInfo /\ IdleBuckets
    /\ ctime = 0
    /\ caches = [id \in Instances |-> [k \in CacheKeys |-> NoEntry]]
    /\ cacheStats = [id \in Instances |-> [hits |-> 0, misses |-> 0]]
    /\ lastGet = NoGet
    /\ lastPut = [role \in CacheRoles |-> [k \in CacheKeys |-> NoEntry]]
    /\ IdleScatter /\ IdleLimiter /\ IdleFindMerge /\ IdleRenderMerge /\ IdleEncoder

NextCaches ==
    \/ \E role \in CacheRoles, k \in CacheKeys, v \in CacheValues : Put(role, k, v)
    \/ \E role \in CacheRoles, k \in CacheKeys : Get(role, k)
    \/ \E t \in ClockInstants : Advance(t)

SpecCaches == InitCaches /\ [][NextCaches]_vars

\* what the last Get has to return if the entry lives while `fresh` holds of
\* its age and the delay
GetFollowsLastPut(fresh(_, _)) ==
    lastGet.role \in CacheRoles =>
        LET put  == lastGet.since
            live == /\ put # NoEntry
                    /\ fresh(lastGet.at - put.at,
                             CacheOf(lastGet.role).expireDelaySec)
        IN  /\ lastGet.found = live
            /\ live => /\ lastGet.value = put.value
                       /\ lastGet.hits = 1 /\ lastGet.misses = 0
            /\ ~live => /\ lastGet.hits = 0 /\ lastGet.misses = 1
                        /\ lastGet.evicted

\* a cache holds nothing but what was last put into it in its own role
CachesIndependent ==
    \A role \in CacheRoles, k \in CacheKeys :
        caches[CacheOf(role).id][k] \in {NoEntry, lastPut[role][k]}

NumPoints == 2

MetricNames == {"m.req", "m.other"}
\* float64 values of points; an absent point usually carries 0
PointValues == {0, 7}

\* pb3.FetchResponse: IsAbsent has a flag for every value
FetchResponses ==
    [Name : {"m.req"}, StartTime : {60}, StepTime : {60},
     StopTime : {60 + 60 * NumPoints},
     Values : [1..NumPoints -> PointValues],
     IsAbsent : [1..NumPoints -> BOOLEAN]]
      \cup
    [Name : {"m.other"}, StartTime : {0}, StepTime : {10},
     StopTime : {10 * NumPoints},
     Values : {[i \in 1..NumPoints |-> 0]},
     IsAbsent : {[i \in 1..NumPoints |-> i = 1]}]

\* pb3.MultiFetchResponse.Metrics
MultiFetchResponses ==
    {<< >>} \cup {<<m>> : m \in FetchResponses}
            \cup {<<m, n>> : m \in {r \in FetchResponses : r.Name = "m.req"},
                             n \in {r \in FetchResponses : r.Name = "m.other"}}

\* interface{} values: a float64, nil, or pickle.None{}
Float64(v) == [type |-> "float64", v |-> v]
Nil == [type |-> "nil", v |-> 0]
PickleNone == [type |-> "pickle.None", v |-> 0]

createRenderResponseZeroIsMissing(metrics, missing) ==
    [m \in DOMAIN metrics |->
        [start |-> metrics[m].StartTime,
         step |-> metrics[m].StepTime,
         end |-> metrics[m].StopTime,
         name |-> metrics[m].Name,
         values |-> [i \in DOMAIN metrics[m].Values |->
                        IF metrics[m].Values[i] = 0 THEN missing
                        ELSE Float64(metrics[m].Values[i])]]]

createRenderResponse(metrics, missing) ==
    [m \in DOMAIN metrics |->
        [start |-> metrics[m].StartTime,
         step |-> metrics[m].StepTime,
         end |-> metrics[m].StopTime,
         name |-> metrics[m].Name,
         values |-> [i \in DOMAIN metrics[m].Values |->
                        IF metrics[m].IsAbsent[i] THEN missing
                        ELSE Float64(metrics[m].Values[i])]]]

\* encoding/json: nil is null, a float64 a number
jsonValue(x) ==
    CASE x.type = "float64" -> [json |-> "number", v |-> x.v]
      [] x.type = "nil" -> [json |-> "null", v |-> 0]
      [] OTHER -> [json |-> "object", v |-> 0]

\* pickle: None is the NONE opcode, a float64 a BINFLOAT
pickleValue(x) ==
    CASE x.type = "float64" -> [pickle |-> "BINFLOAT", v |-> x.v]
      [] OTHER -> [pickle |-> "NONE", v |-> 0]

\* json.NewEncoder(w).Encode(presponse)
jsonEncode(presponse) ==
    [m \in DOMAIN presponse |->
        [presponse[m] EXCEPT !.values = [i \in DOMAIN @ |-> jsonValue(@[i])]]]

\* pickle.NewEncoder(w).Encode(presponse)
pickleEncode(presponse) ==
    [m \in DOMAIN presponse |->
        [presponse[m] EXCEPT !.values = [i \in DOMAIN @ |-> pickleValue(@[i])]]]

\* switch format, main.go 386-404
renderEncode(format, metrics) ==
    CASE format = "protobuf" ->
            [contentType |-> "application/x-protobuf", raw |-> metrics]
      [] format = "json" ->
            [contentType |-> "application/json",
             body |-> jsonEncode(createRenderResponse(metrics, Nil))]
      [] format \in {"", "pickle"} ->
            [contentType |-> "application/pickle",
             body |-> pickleEncode(createRenderResponse(metrics, PickleNone))]
      [] OTHER -> [contentType |-> ""]

renderHandler_Encode(format) ==
    /\ encoded = << >>
    /\ encoded' = [format |-> format, response |-> renderEncode(format, fetched)]
    /\ UNCHANGED fetched
    /\ UNCHANGED <<startvars, handlervars, infovars, bucketvars,
                   scattervars, limitervars, fmvars,
                   rmvars, cachevars>>

InitEncode ==
    /\ InitServing
    /\ InitHandlers
    /\ IdleInfo /\ IdleBuckets
    /\ fetched \in MultiFetchResponses
    /\ encoded = << >>
    /\ IdleScatter /\ IdleLimiter /\ IdleFindMerge /\ IdleRenderMerge /\ IdleCaches

NextEncode == \E format \in Formats : renderHandler_Encode(format)

SpecEncode == InitEncode /\ [][NextEncode]_vars

\* what stands for a number and for an absent point in an encoding
NumberIn(format, v) ==
    IF format = "json" THEN [json |-> "number", v |-> v]
    ELSE [pickle |-> "BINFLOAT", v |-> v]

SentinelIn(format) ==
    IF format = "json" THEN [json |-> "null", v |-> 0]
    ELSE [pickle |-> "NONE", v |-> 0]

\* C9: in the JSON and pickle render encodings every series is emitted with
\* its start, step, end and name unchanged and with one value per point, in
\* order: the sentinel (null, None) exactly where the point's absent flag is
\* set, the point's number otherwise; an absent point is never emitted as 0
\* and a present 0 is emitted as 0.
C9_AbsentPointsAreSentinels ==
    (encoded # << >> /\ encoded.format \in {"json", "pickle", ""}) =>
        LET body == encoded.response.body
            f    == encoded.format
        IN
        /\ DOMAIN body = DOMAIN fetched
        /\ \A m \in DOMAIN fetched :
              /\ body[m].start = fetched[m].StartTime
              /\ body[m].step = fetched[m].StepTime
              /\ body[m].end = fetched[m].StopTime
              /\ body[m].name = fetched[m].Name
              /\ DOMAIN body[m].values = DOMAIN fetched[m].Values
              /\ \A i \in DOMAIN fetched[m].Values :
                    /\ body[m].values[i] = SentinelIn(f) <=> fetched[m].IsAbsent[i]
                    /\ ~fetched[m].IsAbsent[i]
                          => body[m].values[i] = NumberIn(f, fetched[m].Values[i])
                    /\ fetched[m].IsAbsent[i] => body[m].values[i] # NumberIn(f, 0)
                    /\ SentinelIn(f) # NumberIn(f, fetched[m].Values[i])

\* a JSON reply of two series has been encoded; one series has an absent
\* point carrying 0 and a present point whose value is 0
C9_Witness ==
    /\ encoded # << >>
    /\ encoded.format = "json"
    /\ Len(fetched) = 2
    /\ \E m \in DOMAIN fetched :
          \E i, j \in DOMAIN fetched[m].Values :
             /\ fetched[m].IsAbsent[i] /\ fetched[m].Values[i] = 0
             /\ ~fetched[m].IsAbsent[j] /\ fetched[m].Values[j] = 0


(***************************************************************************)
(* infoHandler's encoding of an info reply, main.go 524-543.               *)
(***************************************************************************)
\* backends that can answer an info request
NumServers == 3

\* a backend's identity; 0 stands for the empty string of a zero value
Servers == 1..NumServers
\* pb3.InfoResponse
InfoValues == {"retention 60s", "retention 10s"}

\* infos: map[string]pb3.InfoResponse, one entry per backend that answered
InfoMaps == UNION {[S -> InfoValues] : S \in SUBSET Servers}

\* the zero value of pb3.ServerInfoResponse
ZeroServerInfoResponse == [Server |-> 0, Info |-> "nil"]

\* the orders in which `range infos` can visit the map
RangeOrders(m) ==
    {o \in [1..Cardinality(DOMAIN m) -> DOMAIN m] :
        \A j, k \in DOMAIN o : j # k => o[j] # o[k]}

\* the variable `i` of `for s, i := range infos`: one for the whole loop, or
\* one per iteration, as the language version of the build has it
LoopVariables == {"per loop", "per iteration"}

\* main.go 528-535: make(..., len(infos)), then one append per map entry with
\* r.Info = &i; the pointers are followed when the result is marshalled
infoResponses(m, order, loopVariable) ==
    LET n == Len(order) IN
    [k \in 1..n |-> ZeroServerInfoResponse]
        \o [k \in 1..n |->
              [Server |-> order[k],
               Info |-> IF loopVariable = "per loop" THEN m[order[n]]
                        ELSE m[order[k]]]]

\* switch format, main.go 525-543
infoEncode(format, m, order, loopVariable) ==
    CASE format \in {"protobuf", "protobuf3"} ->
            [contentType |-> "application/x-protobuf",
             Responses |-> infoResponses(m, order, loopVariable)]
      [] format \in {"", "json"} ->
            [contentType |-> "application/json", object |-> m]
      [] OTHER -> [contentType |-> ""]

infoHandler_Encode(format) ==
    /\ infoEncoded = << >>
    /\ \E response \in {infoEncode(format, infos, order, loopVariable) :
                           order \in RangeOrders(infos),
                           loopVariable \in LoopVariables} :
          infoEncoded' = [format |-> format, response |-> response]
    /\ UNCHANGED infos
    /\ UNCHANGED <<startvars, handlervars, scattervars, limitervars, fmvars,
                   rmvars, cachevars, encvars, bucketvars>>

InitInfo ==
    /\ InitServing
    /\ InitHandlers
    /\ infos \in InfoMaps
    /\ infoEncoded = << >>
    /\ IdleScatter /\ IdleLimiter /\ IdleFindMerge /\ IdleRenderMerge
    /\ IdleCaches /\ IdleEncoder /\ IdleBuckets

NextInfo == \E format \in Formats : infoHandler_Encode(format)

SpecInfo == InitInfo /\ [][NextInfo]_vars

\* C11: the protobuf encoding of an info reply has exactly one entry per
\* backend of the engine's map, no empty entry among them, and each entry
\* carries its backend's identity with that backend's own info.
C11_OneEntryPerBackendWithItsInfo ==
    (infoEncoded # << >> /\ infoEncoded.format = "protobuf") =>
        LET R == infoEncoded.response.Responses IN
        /\ Len(R) = Cardinality(DOMAIN infos)
        /\ \A k \in DOMAIN R : R[k].Server \in DOMAIN infos
        /\ \A j, k \in DOMAIN R : j # k => R[j].Server # R[k].Server
        /\ \A k \in DOMAIN R :
              R[k].Server \in DOMAIN infos => R[k].Info = infos[R[k].Server]


(***************************************************************************)
(* The timing of requests: httputil.TimeHandler calls bucketRequestTimes   *)
(* (main.go 806-831) with the time the handler took; main() makes          *)
(* timeBuckets (main.go 650) and publishes its elements (main.go 742-751). *)
(***************************************************************************)
\* the largest config.Buckets
NumBuckets == 3
\* timed requests in one run
MaxTimed == 4

RECURSIVE Pow2(_)
Pow2(n) == IF n = 0 THEN 1 ELSE 2 * Pow2(n - 1)

\* main.go 743-749: the bounds bucket i is published under
lower(i) == IF i = 0 THEN 0 ELSE 50 * Pow2(i - 1)
upper(i) == 50 * Pow2(i)

BucketsConfig(buckets) == [ServingConfig EXCEPT !.Buckets = buckets]

\* milliseconds a request can take: around every boundary, and beyond the last
Durations ==
    {0, 10} \cup {upper(i) - 1 : i \in 0..NumBuckets}
            \cup {upper(i) : i \in 0..NumBuckets}
            \cup {2 * upper(NumBuckets)}

\* main.go 814-819: the value of `bucket` after the loop
RECURSIVE bucketLoop(_, _, _)
bucketLoop(bucket, ms, buckets) ==
    IF bucket < buckets + 1
    THEN IF ms >= 50 * Pow2(bucket)
         THEN bucket - 1
         ELSE bucketLoop(bucket + 1, ms, buckets)
    ELSE bucket

\* main.go 821-830: the element of timeBuckets the call adds to, and whether
\* the request is logged as slow; an index outside the slice panics, and the
\* server recovers the panic of the request's goroutine
bucketRequestTimes(ms) ==
    LET bucket == bucketLoop(0, ms, config.Buckets)
        slow   == ~(bucket < config.Buckets)
        index  == IF slow THEN config.Buckets ELSE bucket
        panics == index \notin DOMAIN timeBuckets
    IN
    /\ Serving
    /\ timed < MaxTimed
    /\ timeBuckets' = IF panics THEN timeBuckets
                      ELSE [timeBuckets EXCEPT ![index] = @ + 1]
    /\ timed' = timed + 1
    /\ lastTimed' = [ms |-> ms, index |-> index, slow |-> slow,
                     panicked |-> panics]
    /\ UNCHANGED <<startvars, handlervars, scattervars, limitervars, fmvars,
                   rmvars, cachevars, encvars, infovars>>

InitBuckets ==
    /\ \E buckets \in 1..NumBuckets : InitProcess(BucketsConfig(buckets))
    /\ InitHandlers
    /\ timeBuckets = [i \in 0..config.Buckets |-> 0]
    /\ timed = 0
    /\ lastTimed = << >>
    /\ IdleScatter /\ IdleLimiter /\ IdleFindMerge /\ IdleRenderMerge
    /\ IdleCaches /\ IdleEncoder /\ IdleInfo

NextBuckets == \E ms \in Durations : bucketRequestTimes(ms)

SpecBuckets == InitBuckets /\ [][NextBuckets]_vars

\* C12: a request that took ms milliseconds is counted in the bucket i with
\* lower(i) <= ms < upper(i), the bounds the bucket is published under; only a
\* request of 50 * 2^Buckets ms or more goes to the overflow bucket and is
\* logged as slow.
C12_BucketFollowsBoundaries ==
    lastTimed # << >> =>
        /\ ~lastTimed.panicked
        /\ lastTimed.index \in 0..config.Buckets
        /\ IF lastTimed.ms >= upper(config.Buckets)
           THEN lastTimed.index = config.Buckets /\ lastTimed.slow
           ELSE /\ lower(lastTimed.index) <= lastTimed.ms
                /\ lastTimed.ms < upper(lastTimed.index)
                /\ ~lastTimed.slow

\* C14: every call of bucketRequestTimes adds one to exactly one element of
\* timeBuckets, at an index within 0..Buckets, so that the elements sum to the
\* number of timed requests.
C14_OneBucketPerTimedRequest ==
    /\ DOMAIN timeBuckets = 0..config.Buckets
    /\ lastTimed # << >> => lastTimed.index \in DOMAIN timeBuckets
    /\ SetSum(DOMAIN timeBuckets, timeBuckets) = timed


(***************************************************************************)
(* The request counters of the handlers, under Spec.                       *)
(***************************************************************************)
\* the goroutines inside a handler
InHandler == {s \in Slots : ~Free(s)}

\* C13: under every interleaving of the handlers each request has added one
\* to Requests on entry and, once its handler has returned, one to exactly one
\* of Responses and Errors, whichever way the handler was left: Requests is
\* Responses plus Errors plus the handlers still running, so that
\* Requests = Responses + Errors whenever no handler is running.
C13_RequestsAreResponsesPlusErrors ==
    /\ Metrics.Requests = hist.started
    /\ Metrics.Responses = hist.codes[200]
    /\ Metrics.Errors = hist.codes[400] + hist.codes[500]
    /\ Metrics.Requests
          = Metrics.Responses + Metrics.Errors + Cardinality(InHandler)
    /\ InHandler = {} => Metrics.Requests = Metrics.Responses + Metrics.Errors

\* no handler is running; of the requests served one was answered 200 with
\* an empty body for a format the handler does not know, and one was refused
\* for its arguments
C13_Witness ==
    /\ InHandler = {}
    /\ hist.started = MaxRequests
    /\ \E s \in Slots :
          hreq[s].pc = "done" /\ hreq[s].code = 200 /\ hreq[s].body = ""
    /\ \E s \in Slots : hreq[s].pc = "done" /\ hreq[s].code = 400
    /\ Metrics.Responses >= 1
    /\ Metrics.Errors >= 1

=============================================================================
